---- MODULE Spec2Model ----
(***************************************************************************)
(* Verification model of the OCR pipeline driver (src/ocr_gemini/cli.py),  *)
(* its retry policy (engine/retry_logic.py), its error classifier         *)
(* (engine/errors.py) and the run repository (db/repo.py).                 *)
(*                                                                         *)
(* Conventions.  Python None is 0 for a run id / parent run id (run ids    *)
(* come from a serial column and start at 1), "None" for an error kind,   *)
(* and the empty sequence for an optional record (<<r>> is "some r").      *)
(* The repository is modelled at its interface: a row written through one *)
(* of its methods is what a later read through its methods returns.       *)
(***************************************************************************)
EXTENDS Integers, Sequences, FiniteSets, TLC

\* ------------------------------------------------------------------------
\* Bounds of the model
\* ------------------------------------------------------------------------
MaxPrevAttempt == 3     \* attempt numbers of the prior runs given to the policy
MaxAttemptsCfg == 3     \* values of --max-attempts tried: 0..MaxAttemptsCfg
MaxRunId       == 2     \* run ids of the prior runs given to the policy
NumFiles       == 2     \* images found by the scan of one invocation
MaxRuns        == 2     \* rows the run table can hold
MaxAttemptsDriver == 2  \* --max-attempts of the driver: 1 or MaxAttemptsDriver
MaxRetries     == 2     \* retries given to retry_call: 0..MaxRetries
MaxSize        == 2     \* size of a WorkerPool: 0..MaxSize
MaxWorkers     == 4     \* entries the worker list can hold
MaxJobs        == 4     \* jobs submitted between two start() calls

\* ------------------------------------------------------------------------
\* engine/errors.py : ErrorKind
\* ------------------------------------------------------------------------
TRANSIENT == "transient"
PERMANENT == "permanent"
UNKNOWN   == "unknown"
ErrorKind == {TRANSIENT, PERMANENT, UNKNOWN}

\* The statuses a run row can carry (db/repo.py writes them as free text;
\* retry_logic.py distinguishes these five).
RunStatus == {"queued", "processing", "done", "failed", "skipped"}

VARIABLES
    last_run,      \* policy check: the snapshot handed to decide_retry_action
    dcfg,          \* policy check: the configuration handed to it
    decision,      \* policy check: <<>> before the call, <<result>> after
    docs,          \* ocr_document: per source path, its pipeline column
    runs,          \* ocr_run: sequence of rows, run_id = index
    steps,         \* ocr_step: the rows appended while the current image is
                   \*   handled (the table is append-only and no code reads it)
    pc,            \* position of main(): idle, preflight, create, try,
                   \*   except, next, finally
    cfg,           \* main: the PipelineConfig built from the arguments
    hasRepo,       \* main: repo is not None
    i,             \* main: index of the image being handled
    doc_id,        \* main: doc_id (0 is None)
    run_id,        \* main: run_id (0 is None)
    attempt_no,    \* main: attempt_no
    parent_run_id, \* main: parent_run_id (0 is None)
    recovery_count,\* main: recovery_count
    exc,           \* main: the exception caught by 'except Exception as e'
    exit,          \* main: how the for loop was left
    log,           \* history: the engine.ocr and engine.recover calls made for
                   \*   the current image and how each ended
    base,          \* history: the number of run rows when the invocation began
    invocations,   \* history: the invocations started (counted under a limit)
    committed,     \* OcrRepo.conn: the tables as of the last repo.commit(), which
                   \*   is what a connection closed with autocommit off leaves
    released,      \* history: the calls the finally block of the last
                   \*   invocation made and how each ended
    failure,       \* classifier check: the exception handed to classify_error
    classified,    \* classifier check: <<>> before the call, <<kind>> after
    file_limit,    \* Pipeline: cfg.limit (0: no limit)
    processed,     \* Pipeline.run: processed, the files taken so far
    outcome,       \* Pipeline.run: idle, running, returned or raised
    tables,        \* MinimalDbWriter.conn: ocr_document (status per file) and
                   \*   ocr_entry (files with an entry) as the connection sees them
    saved,         \* MinimalDbWriter.conn: the same as of the last commit
    dbcalls,       \* history: the calls _process_one made for the last file
                   \*   and how each ended
    retries,       \* retry_call: retries
    backoff_ms,    \* retry_call: backoff_ms
    retry_on,      \* retry_call: retry_on, the exception classes retried
    attempts_made, \* retry_call: attempt
    fn_calls,      \* history: how each call of fn ended ("ok" or the class raised)
    ending,        \* retry_call: <<>> while it runs, then <<"return", k>> or
                   \*   <<"raise", k>>: the result or exception of call k of fn
                   \*   (k = 0: the ValueError of time.sleep)
    size,          \* WorkerPool: size
    workers,       \* WorkerPool: workers, each Worker given by its id
    current_worker_index, \* WorkerPool: _current_worker_index
    jobs_since_start,     \* history: submit_job calls since the last start()
    last_job       \* history: how the last submit_job ended, with the worker
                   \*   index the round-robin rule expects

decideVars == <<last_run, dcfg, decision>>
tableVars  == <<docs, runs, steps>>
localVars  == <<doc_id, run_id, attempt_no, parent_run_id, recovery_count, exc>>
driverVars == <<docs, runs, steps, pc, cfg, hasRepo, i, doc_id, run_id,
                attempt_no, parent_run_id, recovery_count, exc, exit, log, base,
                invocations, committed, released>>
classifyVars == <<failure, classified>>
pipelineVars == <<file_limit, processed, outcome, tables, saved, dbcalls>>
retryVars  == <<retries, backoff_ms, retry_on, attempts_made, fn_calls, ending>>
poolVars   == <<size, workers, current_worker_index, jobs_since_start, last_job>>
otherVars  == <<classifyVars, pipelineVars, retryVars, poolVars>>
vars == <<last_run, dcfg, decision, docs, runs, steps, pc, cfg, hasRepo,
          i, doc_id, run_id, attempt_no, parent_run_id, recovery_count, exc,
          exit, log, base, invocations, committed, released, otherVars>>

\* ------------------------------------------------------------------------
\* engine/retry_logic.py : decide_retry_action
\* ------------------------------------------------------------------------

\* lines 20-25: the defaults for a fresh run
FreshAction ==
    [should_process |-> TRUE, reason |-> "New document",
     attempt_no |-> 1, parent_run_id |-> 0]

\* Variant: --retry-failed is not consulted for a document without history.
decide_no_history_ignoring_flag(action, c) ==
    action

\* lines 27-32: no history
decide_no_history(action, c) ==
    IF c.retry_failed
    THEN [action EXCEPT !.should_process = FALSE,
                        !.reason = "No prior run (and --retry-failed is set)"]
    ELSE action

\* lines 53-60: prior status 'skipped'
decide_skipped(action, c) ==
    IF c.resume \/ c.retry_failed
    THEN [action EXCEPT !.should_process = TRUE, !.reason = "Resuming skipped"]
    ELSE [action EXCEPT !.should_process = FALSE, !.reason = "Previously skipped"]

\* Variant: the attempt limit is compared with > instead of >=.
decide_failed_off_by_one(action, prev_attempts, prev_kind, c) ==
    IF ~(c.retry_failed \/ c.resume)
    THEN [action EXCEPT !.should_process = FALSE,
                        !.reason = "Failed (use --resume or --retry-failed)"]
    ELSE IF prev_attempts > c.max_attempts
    THEN [action EXCEPT !.should_process = FALSE, !.reason = "Max attempts reached"]
    ELSE IF prev_kind = PERMANENT
    THEN [action EXCEPT !.should_process = FALSE, !.reason = "Permanent error"]
    ELSE LET kind_to_check == IF prev_kind = "None" THEN "unknown" ELSE prev_kind
         IN IF kind_to_check \in c.retry_error_kinds
            THEN [action EXCEPT !.should_process = TRUE, !.reason = "Retrying failure"]
            ELSE [action EXCEPT !.should_process = FALSE,
                                !.reason = "Error kind not in retry list"]

\* Variant: an absent error kind is looked up as it is, not as "unknown".
decide_failed_none_kind(action, prev_attempts, prev_kind, c) ==
    IF ~(c.retry_failed \/ c.resume)
    THEN [action EXCEPT !.should_process = FALSE,
                        !.reason = "Failed (use --resume or --retry-failed)"]
    ELSE IF prev_attempts >= c.max_attempts
    THEN [action EXCEPT !.should_process = FALSE, !.reason = "Max attempts reached"]
    ELSE IF prev_kind = PERMANENT
    THEN [action EXCEPT !.should_process = FALSE, !.reason = "Permanent error"]
    ELSE IF prev_kind \in c.retry_error_kinds
    THEN [action EXCEPT !.should_process = TRUE, !.reason = "Retrying failure"]
    ELSE [action EXCEPT !.should_process = FALSE,
                        !.reason = "Error kind not in retry list"]

\* Variant: the --resume / --retry-failed opt-in is not required.
decide_failed_without_opt_in(action, prev_attempts, prev_kind, c) ==
    IF prev_attempts >= c.max_attempts
    THEN [action EXCEPT !.should_process = FALSE, !.reason = "Max attempts reached"]
    ELSE IF prev_kind = PERMANENT
    THEN [action EXCEPT !.should_process = FALSE, !.reason = "Permanent error"]
    ELSE LET kind_to_check == IF prev_kind = "None" THEN "unknown" ELSE prev_kind
         IN IF kind_to_check \in c.retry_error_kinds
            THEN [action EXCEPT !.should_process = TRUE, !.reason = "Retrying failure"]
            ELSE [action EXCEPT !.should_process = FALSE,
                                !.reason = "Error kind not in retry list"]

\* Variant: a permanent failure is retried when its kind is in the retry list.
decide_failed_permanent_listed(action, prev_attempts, prev_kind, c) ==
    IF ~(c.retry_failed \/ c.resume)
    THEN [action EXCEPT !.should_process = FALSE,
                        !.reason = "Failed (use --resume or --retry-failed)"]
    ELSE IF prev_attempts >= c.max_attempts
    THEN [action EXCEPT !.should_process = FALSE, !.reason = "Max attempts reached"]
    ELSE LET kind_to_check == IF prev_kind = "None" THEN "unknown" ELSE prev_kind
         IN IF kind_to_check \in c.retry_error_kinds
            THEN [action EXCEPT !.should_process = TRUE, !.reason = "Retrying failure"]
            ELSE [action EXCEPT !.should_process = FALSE,
                                !.reason = "Error kind not in retry list"]

\* lines 62-93: prior status 'failed'
decide_failed(action, prev_attempts, prev_kind, c) ==
    IF ~(c.retry_failed \/ c.resume)
    THEN [action EXCEPT !.should_process = FALSE,
                        !.reason = "Failed (use --resume or --retry-failed)"]
    ELSE IF prev_attempts >= c.max_attempts
    THEN [action EXCEPT !.should_process = FALSE, !.reason = "Max attempts reached"]
    ELSE IF prev_kind = PERMANENT
    THEN [action EXCEPT !.should_process = FALSE, !.reason = "Permanent error"]
    ELSE LET kind_to_check == IF prev_kind = "None" THEN "unknown" ELSE prev_kind
         IN IF kind_to_check \in c.retry_error_kinds
            THEN [action EXCEPT !.should_process = TRUE, !.reason = "Retrying failure"]
            ELSE [action EXCEPT !.should_process = FALSE,
                                !.reason = "Error kind not in retry list"]

\* Variant: only --resume revives an interrupted run.
decide_incomplete_resume_only(action, c) ==
    IF c.resume
    THEN [action EXCEPT !.should_process = TRUE, !.reason = "Resuming incomplete run"]
    ELSE [action EXCEPT !.should_process = FALSE,
                        !.reason = "Status incomplete (use --resume to reset)"]

\* lines 95-112: prior status 'processing' or 'queued'
decide_incomplete(action, c) ==
    IF c.resume \/ c.retry_failed
    THEN [action EXCEPT !.should_process = TRUE, !.reason = "Resuming incomplete run"]
    ELSE [action EXCEPT !.should_process = FALSE,
                        !.reason = "Status incomplete (use --resume to reset)"]

\* Variant: the force override is tested after the 'done' rule.
decide_with_history_force_late(lr, c) ==
    LET status        == lr.status
        prev_attempts == IF lr.attempt_no = 0 THEN 1 ELSE lr.attempt_no
        prev_kind     == lr.error_kind
        action        == [FreshAction EXCEPT !.attempt_no = prev_attempts + 1,
                                             !.parent_run_id = lr.run_id]
    IN  IF status = "done"
        THEN [action EXCEPT !.should_process = FALSE, !.reason = "Already done"]
        ELSE IF c.force
        THEN [action EXCEPT !.should_process = TRUE, !.reason = "Force retry"]
        ELSE IF status = "skipped"
        THEN decide_skipped(action, c)
        ELSE IF status = "failed"
        THEN decide_failed(action, prev_attempts, prev_kind, c)
        ELSE IF status \in {"processing", "queued"}
        THEN decide_incomplete(action, c)
        ELSE action

\* Variant: the attempt number of the prior run is handed on unchanged.
decide_with_history_same_attempt(lr, c) ==
    LET status        == lr.status
        prev_attempts == IF lr.attempt_no = 0 THEN 1 ELSE lr.attempt_no
        prev_kind     == lr.error_kind
        action        == [FreshAction EXCEPT !.attempt_no = prev_attempts,
                                             !.parent_run_id = lr.run_id]
    IN  IF c.force
        THEN [action EXCEPT !.should_process = TRUE, !.reason = "Force retry"]
        ELSE IF status = "done"
        THEN [action EXCEPT !.should_process = FALSE, !.reason = "Already done"]
        ELSE IF status = "skipped"
        THEN decide_skipped(action, c)
        ELSE IF status = "failed"
        THEN decide_failed(action, prev_attempts, prev_kind, c)
        ELSE IF status \in {"processing", "queued"}
        THEN decide_incomplete(action, c)
        ELSE action

\* lines 34-46: parent linkage and the force override
decide_with_history(lr, c) ==
    LET status        == lr.status
        prev_attempts == IF lr.attempt_no = 0 THEN 1 ELSE lr.attempt_no
        prev_kind     == lr.error_kind
        action        == [FreshAction EXCEPT !.attempt_no = prev_attempts + 1,
                                             !.parent_run_id = lr.run_id]
    IN  IF c.force
        THEN [action EXCEPT !.should_process = TRUE, !.reason = "Force retry"]
        ELSE IF status = "done"
        THEN [action EXCEPT !.should_process = FALSE, !.reason = "Already done"]
        ELSE IF status = "skipped"
        THEN decide_skipped(action, c)
        ELSE IF status = "failed"
        THEN decide_failed(action, prev_attempts, prev_kind, c)
        ELSE IF status \in {"processing", "queued"}
        THEN decide_incomplete(action, c)
        ELSE action

\* lines 6-112
decide_retry_action(lr, c) ==
    IF lr = <<>>
    THEN decide_no_history(FreshAction, c)
    ELSE decide_with_history(lr[1], c)

\* ------------------------------------------------------------------------
\* The inputs of the policy: every snapshot get_latest_run can return
\* (db/repo.py:110-115) and every configuration cli.py:97-110 can build.
\* ------------------------------------------------------------------------
RunSnapshots ==
    [run_id : 1..MaxRunId, status : RunStatus,
     attempt_no : 1..MaxPrevAttempt, error_kind : ErrorKind \cup {"None"}]

Configs ==
    [force : BOOLEAN, resume : BOOLEAN, retry_failed : BOOLEAN,
     max_attempts : 0..MaxAttemptsCfg, retry_error_kinds : SUBSET ErrorKind]

\* ------------------------------------------------------------------------
\* engine/errors.py : classify_error
\* An exception is described by what the classifier can see of it: the
\* marker substrings its type name contains, whether it is a
\* FileNotFoundError, and the keywords its lower-cased message contains.
\* ------------------------------------------------------------------------
\* Variant: the permanent indicators are looked at first.
classify_error_permanent_first(e) ==
    IF e.is_fnf THEN PERMANENT
    ELSE IF "login" \in e.msg_has \/ "auth" \in e.msg_has THEN PERMANENT
    ELSE IF "cookie" \in e.msg_has /\ "missing" \in e.msg_has THEN PERMANENT
    ELSE IF "invalid" \in e.msg_has /\ "format" \in e.msg_has THEN PERMANENT
    ELSE IF "TimeoutError" \in e.type_has THEN TRANSIENT
    ELSE IF "TargetClosedError" \in e.type_has THEN TRANSIENT
    ELSE IF "detached" \in e.msg_has THEN TRANSIENT
    ELSE IF "execution context was destroyed" \in e.msg_has THEN TRANSIENT
    ELSE IF "navigating to" \in e.msg_has /\ "timeout" \in e.msg_has THEN TRANSIENT
    ELSE IF "network" \in e.msg_has /\ "error" \in e.msg_has THEN TRANSIENT
    ELSE UNKNOWN

\* Variant: a FileNotFoundError is classified by its message alone.
classify_error_without_isinstance(e) ==
    IF "TimeoutError" \in e.type_has THEN TRANSIENT
    ELSE IF "TargetClosedError" \in e.type_has THEN TRANSIENT
    ELSE IF "detached" \in e.msg_has THEN TRANSIENT
    ELSE IF "execution context was destroyed" \in e.msg_has THEN TRANSIENT
    ELSE IF "navigating to" \in e.msg_has /\ "timeout" \in e.msg_has THEN TRANSIENT
    ELSE IF "network" \in e.msg_has /\ "error" \in e.msg_has THEN TRANSIENT
    ELSE IF "login" \in e.msg_has \/ "auth" \in e.msg_has THEN PERMANENT
    ELSE IF "cookie" \in e.msg_has /\ "missing" \in e.msg_has THEN PERMANENT
    ELSE IF "invalid" \in e.msg_has /\ "format" \in e.msg_has THEN PERMANENT
    ELSE UNKNOWN

classify_error(e) ==
    IF "TimeoutError" \in e.type_has THEN TRANSIENT
    ELSE IF "TargetClosedError" \in e.type_has THEN TRANSIENT
    ELSE IF "detached" \in e.msg_has THEN TRANSIENT
    ELSE IF "execution context was destroyed" \in e.msg_has THEN TRANSIENT
    ELSE IF "navigating to" \in e.msg_has /\ "timeout" \in e.msg_has THEN TRANSIENT
    ELSE IF "network" \in e.msg_has /\ "error" \in e.msg_has THEN TRANSIENT
    ELSE IF e.is_fnf THEN PERMANENT
    ELSE IF "login" \in e.msg_has \/ "auth" \in e.msg_has THEN PERMANENT
    ELSE IF "cookie" \in e.msg_has /\ "missing" \in e.msg_has THEN PERMANENT
    ELSE IF "invalid" \in e.msg_has /\ "format" \in e.msg_has THEN PERMANENT
    ELSE UNKNOWN

\* The exceptions the collaborators of the driver raise in this model: one
\* of each kind, with different messages.
ExcTimeout  == [type_has |-> {"TimeoutError"}, is_fnf |-> FALSE, msg_has |-> {"timeout"}]
ExcLogin    == [type_has |-> {}, is_fnf |-> FALSE, msg_has |-> {"login"}]
ExcOther    == [type_has |-> {}, is_fnf |-> FALSE, msg_has |-> {"error"}]
Exceptions  == {ExcTimeout, ExcLogin, ExcOther}

\* lines 17-40: the substrings classify_error looks for in type(e).__name__
\* and in str(e).lower()
TypeMarkers == {"TimeoutError", "TargetClosedError"}
MessageKeywords ==
    {"detached", "execution context was destroyed", "navigating to", "timeout",
     "network", "error", "login", "auth", "cookie", "missing", "invalid",
     "format"}

\* Every exception as the classifier can tell exceptions apart.
Failures ==
    [type_has : SUBSET TypeMarkers, is_fnf : BOOLEAN, msg_has : SUBSET MessageKeywords]

\* KeyboardInterrupt is a BaseException: 'except Exception' does not catch it.
KeyboardInterrupt ==
    [type_has |-> {"KeyboardInterrupt"}, is_fnf |-> FALSE, msg_has |-> {}]
Raisable == Exceptions \cup {KeyboardInterrupt}

\* str(e): the message of an exception
Str(e) == <<e.msg_has>>

\* ------------------------------------------------------------------------
\* db/repo.py : OcrRepo
\* ------------------------------------------------------------------------
Files == 1..NumFiles

\* cli.py:105
PIPELINE == "gemini-ui-cli"

\* pipeline.py:30
STAGE1 == "stage1-no-ui"

Pipelines == {PIPELINE, STAGE1}

\* lines 38-53: upsert by source path; the pipeline column is left alone
get_or_create_document(d, f) ==
    IF d[f] = "absent" THEN [d EXCEPT ![f] = "NULL"] ELSE d

RunsOfDoc(rs, did) == {r \in 1..Len(rs) : rs[r].doc_id = did}

MaxOf(S) == CHOOSE m \in S : \A n \in S : n <= m

\* Variant: the pipeline column of the document is not looked at.
get_latest_run_ignoring_pipeline(d, rs, did, pipeline) ==
    IF RunsOfDoc(rs, did) = {}
    THEN <<>>
    ELSE LET r == MaxOf(RunsOfDoc(rs, did))
         IN <<[run_id |-> r, status |-> rs[r].status,
               attempt_no |-> IF rs[r].attempt_no = 0 THEN 1 ELSE rs[r].attempt_no,
               error_kind |-> rs[r].error_kind]>>

\* Variant: history is hidden when the pipeline column matches.
get_latest_run_inverted_check(d, rs, did, pipeline) ==
    IF did \in DOMAIN d /\ d[did] # "absent" /\ d[did] = pipeline
    THEN <<>>
    ELSE IF RunsOfDoc(rs, did) = {}
         THEN <<>>
         ELSE LET r == MaxOf(RunsOfDoc(rs, did))
              IN <<[run_id |-> r, status |-> rs[r].status,
                    attempt_no |-> IF rs[r].attempt_no = 0 THEN 1 ELSE rs[r].attempt_no,
                    error_kind |-> rs[r].error_kind]>>

\* lines 85-116
get_latest_run(d, rs, did, pipeline) ==
    IF did \in DOMAIN d /\ d[did] # "absent" /\ d[did] # pipeline
    THEN <<>>
    ELSE IF RunsOfDoc(rs, did) = {}
         THEN <<>>
         ELSE LET r == MaxOf(RunsOfDoc(rs, did))
              IN <<[run_id |-> r, status |-> rs[r].status,
                    attempt_no |-> IF rs[r].attempt_no = 0 THEN 1 ELSE rs[r].attempt_no,
                    error_kind |-> rs[r].error_kind]>>

\* lines 55-83: a done run of the document exists and the document's pipeline
\* column equals the requested pipeline
has_successful_run(d, rs, did, pipeline) ==
    /\ d[did] = pipeline
    /\ \E r \in RunsOfDoc(rs, did) : rs[r].status = "done"

\* lines 122-126: the UPDATE of ocr_document in create_run
create_run_update_doc(d, did, pipeline) ==
    IF did \in DOMAIN d /\ d[did] # "absent"
    THEN [d EXCEPT ![did] = pipeline]
    ELSE d

\* lines 128-143: the INSERT of create_run.  ocr_run has no pipeline column;
\* made_under is history: the pipeline argument of the call that made the row.
create_run_insert(rs, did, pipeline, status, attempt, parent) ==
    Append(rs, [doc_id |-> did, status |-> status, attempt_no |-> attempt,
                parent_run_id |-> parent, error_kind |-> "None",
                error_message |-> <<>>, out_path |-> 0,
                started |-> (status = "processing"), finished |-> FALSE,
                made_under |-> pipeline])

\* lines 145-162: COALESCE keeps a column when the argument is None
mark_run_status(rs, rid, status, error_message, out_path, error_kind) ==
    IF rid \in 1..Len(rs)
    THEN [rs EXCEPT ![rid] =
            [@ EXCEPT !.status = status,
                      !.error_message = IF error_message = <<>> THEN @ ELSE error_message,
                      !.out_path = IF out_path = 0 THEN @ ELSE out_path,
                      !.error_kind = IF error_kind = "None" THEN @ ELSE error_kind,
                      !.finished = IF status \in {"done", "failed"} THEN TRUE ELSE @,
                      !.started = IF status = "processing" THEN TRUE ELSE @]]
    ELSE rs

\* lines 164-171
mark_step(ss, rid, step_name, status, error_message) ==
    Append(ss, [run_id |-> rid, step_name |-> step_name, status |-> status,
                error_message |-> error_message])

\* ------------------------------------------------------------------------
\* cli.py : main
\* ------------------------------------------------------------------------

\* lines 97-110 with the defaults of lines 79-91
\* The configurations the driver is started with in this model.
DriverConfigs ==
    {c \in Configs : /\ c.max_attempts \in {1, MaxAttemptsDriver}
                     /\ c.retry_error_kinds = {TRANSIENT, UNKNOWN}}

NoConfig ==
    [force |-> FALSE, resume |-> FALSE, retry_failed |-> FALSE,
     max_attempts |-> 3, retry_error_kinds |-> {TRANSIENT, UNKNOWN}]

InitDriver ==
    /\ docs = [f \in Files |-> "absent"]
    /\ runs = <<>>
    /\ steps = <<>>
    /\ pc = "idle"
    /\ cfg = NoConfig
    /\ hasRepo = FALSE
    /\ i = 0
    /\ doc_id = 0
    /\ run_id = 0
    /\ attempt_no = 1
    /\ parent_run_id = 0
    /\ recovery_count = 0
    /\ exc = <<>>
    /\ exit = "none"
    /\ log = <<>>
    /\ base = 0
    /\ invocations = 0
    /\ committed = [docs |-> [f \in Files |-> "absent"], runs |-> <<>>]
    /\ released = <<>>

\* history: how a call that did not return is written in the log
Ended(name, x) == <<name, IF x = KeyboardInterrupt THEN "interrupt" ELSE "raise">>

\* The calls of main() that can raise.
AllCalls ==
    {"engine.start", "sha256_file", "get_or_create_document", "get_latest_run",
     "create_run", "mark_run_status", "mark_step", "engine.ocr", "write_text",
     "engine.recover"}

\* lines 270-281: the calls of the finally block
FinallyCalls == {"engine.stop", "repo.close"}

\* An environment says which calls may raise an exception, whether a
\* KeyboardInterrupt may arrive, whether the database is configured (repo),
\* how many invocations are followed (0: any number), with which
\* configurations they are started, and whether the repository keeps what a
\* call wrote once the call has returned (keeps_writes, as the repository
\* doubles of tests/test_cli_integration.py do) or only what was committed
\* (repo.py:24, autocommit off).
May(env, name, x) ==
    IF x = KeyboardInterrupt THEN env.interrupts ELSE name \in env.raises

\* lines 268-270: a KeyboardInterrupt or an exception no handler catches
\* leaves the for loop
LeaveLoop(x) ==
    /\ pc' = "finally"
    /\ exit' = IF x = KeyboardInterrupt THEN "interrupt" ELSE "exception"

\* lines 93-152: arguments, repo, scan, engine.start()
StartInvocation(env) ==
    /\ pc = "idle"
    /\ env.limit = 0 \/ invocations < env.limit
    /\ invocations' = IF env.limit = 0 THEN invocations ELSE invocations + 1
    /\ \E c \in env.configs, r \in env.repo :
        /\ ~(c.retry_failed /\ ~r)                 \* lines 131-133
        /\ cfg' = c
        /\ hasRepo' = r
    /\ base' = Len(runs)
    /\ released' = <<>>
    /\ \/ /\ pc' = "preflight"                       \* engine.start() returned
          /\ i' = 1
          /\ exit' = "none"
       \/ \E x \in {ExcOther, KeyboardInterrupt} :   \* engine.start() raised
          /\ May(env, "engine.start", x)
          /\ LeaveLoop(x)
          /\ i' = 0
    /\ UNCHANGED <<tableVars, localVars, log>>

\* Variant: a skip is recorded as a run row with status skipped.
Preflight_recording_skips(env) ==
    /\ pc = "preflight"
    /\ run_id' = 0 /\ recovery_count' = 0 /\ exc' = <<>>
    /\ UNCHANGED <<steps, cfg, hasRepo, i, log, base, invocations>>
    /\ IF ~hasRepo
       THEN /\ doc_id' = 0 /\ attempt_no' = 1 /\ parent_run_id' = 0
            /\ pc' = "create"
            /\ UNCHANGED <<docs, runs, exit, last_run, decision>>
       ELSE \/ \* every call returns
               LET d2   == get_or_create_document(docs, i)
                   last == get_latest_run(d2, runs, i, PIPELINE)
                   dec  == decide_retry_action(last, cfg)
               IN /\ docs' = d2
                  /\ doc_id' = i
                  /\ last_run' = last
                  /\ decision' = <<dec>>
                  /\ IF ~dec.should_process
                     THEN /\ pc' = "next"
                          /\ attempt_no' = 1 /\ parent_run_id' = 0
                          /\ runs' = IF Len(runs) < MaxRuns
                                     THEN create_run_insert(runs, i, PIPELINE, "skipped",
                                              dec.attempt_no, dec.parent_run_id)
                                     ELSE runs
                     ELSE /\ pc' = "create"
                          /\ UNCHANGED runs
                          /\ attempt_no' = dec.attempt_no
                          /\ parent_run_id' = dec.parent_run_id
                  /\ UNCHANGED exit
            \/ \* one of the calls raises
               \E k \in 1..3, x \in {ExcOther, KeyboardInterrupt} :
                 LET names == <<"sha256_file", "get_or_create_document", "get_latest_run">>
                 IN /\ May(env, names[k], x)
                    /\ docs' = IF k = 3 THEN get_or_create_document(docs, i) ELSE docs
                    /\ doc_id' = IF k = 3 THEN i ELSE 0
                    /\ last_run' = <<>>
                    /\ decision' = <<>>
                    /\ UNCHANGED runs
                    /\ attempt_no' = 1 /\ parent_run_id' = 0
                    /\ IF x = KeyboardInterrupt
                       THEN LeaveLoop(x)
                       ELSE /\ pc' = IF cfg.retry_failed THEN "next" ELSE "create"
                            /\ UNCHANGED exit

\* Variant: a pre-flight error never abandons the image.
Preflight_ignoring_retry_failed(env) ==
    /\ pc = "preflight"
    /\ run_id' = 0 /\ recovery_count' = 0 /\ exc' = <<>>
    /\ UNCHANGED <<runs, steps, cfg, hasRepo, i, log, base, invocations>>
    /\ IF ~hasRepo
       THEN /\ doc_id' = 0 /\ attempt_no' = 1 /\ parent_run_id' = 0
            /\ pc' = "create"
            /\ UNCHANGED <<docs, exit, last_run, decision>>
       ELSE \/ \* every call returns
               LET d2   == get_or_create_document(docs, i)
                   last == get_latest_run(d2, runs, i, PIPELINE)
                   dec  == decide_retry_action(last, cfg)
               IN /\ docs' = d2
                  /\ doc_id' = i
                  /\ last_run' = last
                  /\ decision' = <<dec>>
                  /\ IF ~dec.should_process
                     THEN /\ pc' = "next"              \* continue (line 174)
                          /\ attempt_no' = 1 /\ parent_run_id' = 0
                     ELSE /\ pc' = "create"
                          /\ attempt_no' = dec.attempt_no
                          /\ parent_run_id' = dec.parent_run_id
                  /\ UNCHANGED exit
            \/ \* one of the calls raises
               \E k \in 1..3, x \in {ExcOther, KeyboardInterrupt} :
                 LET names == <<"sha256_file", "get_or_create_document", "get_latest_run">>
                 IN /\ May(env, names[k], x)
                    /\ docs' = IF k = 3 THEN get_or_create_document(docs, i) ELSE docs
                    /\ doc_id' = IF k = 3 THEN i ELSE 0
                    /\ last_run' = <<>>
                    /\ decision' = <<>>
                    /\ attempt_no' = 1 /\ parent_run_id' = 0
                    /\ IF x = KeyboardInterrupt
                       THEN LeaveLoop(x)
                       ELSE /\ pc' = "create"
                            /\ UNCHANGED exit

\* lines 155-186: reset of the per-file variables and the pre-flight
Preflight(env) ==
    /\ pc = "preflight"
    /\ run_id' = 0 /\ recovery_count' = 0 /\ exc' = <<>>
    /\ UNCHANGED <<runs, steps, cfg, hasRepo, i, log, base, invocations>>
    /\ IF ~hasRepo
       THEN /\ doc_id' = 0 /\ attempt_no' = 1 /\ parent_run_id' = 0
            /\ pc' = "create"
            /\ UNCHANGED <<docs, exit, last_run, decision>>
       ELSE \/ \* every call returns
               LET d2   == get_or_create_document(docs, i)
                   last == get_latest_run(d2, runs, i, PIPELINE)
                   dec  == decide_retry_action(last, cfg)
               IN /\ docs' = d2
                  /\ doc_id' = i
                  /\ last_run' = last
                  /\ decision' = <<dec>>
                  /\ IF ~dec.should_process
                     THEN /\ pc' = "next"              \* continue (line 174)
                          /\ attempt_no' = 1 /\ parent_run_id' = 0
                     ELSE /\ pc' = "create"
                          /\ attempt_no' = dec.attempt_no
                          /\ parent_run_id' = dec.parent_run_id
                  /\ UNCHANGED exit
            \/ \* one of the calls raises
               \E k \in 1..3, x \in {ExcOther, KeyboardInterrupt} :
                 LET names == <<"sha256_file", "get_or_create_document", "get_latest_run">>
                 IN /\ May(env, names[k], x)
                    /\ docs' = IF k = 3 THEN get_or_create_document(docs, i) ELSE docs
                    /\ doc_id' = IF k = 3 THEN i ELSE 0
                    /\ last_run' = <<>>
                    /\ decision' = <<>>
                    /\ attempt_no' = 1 /\ parent_run_id' = 0
                    /\ IF x = KeyboardInterrupt
                       THEN LeaveLoop(x)
                       ELSE /\ pc' = IF cfg.retry_failed THEN "next" ELSE "create"
                            /\ UNCHANGED exit

\* lines 187-204: backoff, create_run, reset of the recovery counter
CreateRun(env) ==
    /\ pc = "create"
    /\ recovery_count' = 0
    /\ UNCHANGED <<steps, cfg, hasRepo, i, doc_id, attempt_no, parent_run_id,
                   exc, log, base, invocations, last_run, decision>>
    /\ IF ~hasRepo
       THEN /\ pc' = "try"
            /\ UNCHANGED <<docs, runs, run_id, exit>>
       ELSE \/ /\ Len(runs) < MaxRuns
               /\ docs' = create_run_update_doc(docs, doc_id, PIPELINE)
               /\ runs' = create_run_insert(runs, doc_id, PIPELINE, "queued",
                                            attempt_no, parent_run_id)
               /\ run_id' = Len(runs) + 1
               /\ pc' = "try"
               /\ UNCHANGED exit
            \/ \* create_run raises: its two statements share one transaction
               \* (repo.py:24), so the UPDATE is not kept without the INSERT
               \E x \in {ExcOther, KeyboardInterrupt} :
               /\ May(env, "create_run", x) \/ (Len(runs) = MaxRuns /\ x = ExcOther)
               /\ LeaveLoop(x)
               /\ UNCHANGED <<docs, runs, run_id>>

\* cli.py:214
OutPath(f) == f

\* lines 206-222: the body of the try statement of the recovery loop.  Its
\* calls are numbered 1 mark_run_status(processing), 2 mark_step(engine_start),
\* 3 engine.ocr, 4 write_text, 5 mark_run_status(done), 6 mark_step(engine_finish).
TryBody(env) ==
    /\ pc = "try"
    /\ UNCHANGED <<docs, cfg, hasRepo, i, doc_id, run_id, attempt_no,
                   parent_run_id, recovery_count, base, invocations,
                   last_run, decision>>
    /\ LET db     == hasRepo /\ run_id # 0
           names  == <<"mark_run_status", "mark_step", "engine.ocr", "write_text",
                       "mark_run_status", "mark_step">>
           points == IF db THEN {1, 2, 3, 4, 5, 6} ELSE {3, 4}
           runsA  == IF db
                     THEN mark_run_status(runs, run_id, "processing", <<>>, 0, "None")
                     ELSE runs
           stepsA == IF db
                     THEN mark_step(steps, run_id, "engine_start", "started", <<>>)
                     ELSE steps
           runsB  == IF db
                     THEN mark_run_status(runsA, run_id, "done", <<>>, OutPath(i), "None")
                     ELSE runsA
           stepsB == IF db
                     THEN mark_step(stepsA, run_id, "engine_finish", "done", <<>>)
                     ELSE stepsA
       IN \/ \* every call returns: break (line 222)
             /\ runs' = runsB
             /\ steps' = stepsB
             /\ log' = Append(log, <<"engine.ocr", "ok">>)
             /\ pc' = "next"
             /\ UNCHANGED <<exc, exit>>
          \/ \* call k raises x
             \E k \in points, x \in Raisable :
             /\ May(env, names[k], x)
             /\ runs' = IF k <= 1 THEN runs ELSE IF k <= 5 THEN runsA ELSE runsB
             /\ steps' = IF k <= 2 THEN steps ELSE stepsA
             /\ log' = IF k < 3 THEN log
                       ELSE IF k = 3 THEN Append(log, Ended("engine.ocr", x))
                       ELSE Append(log, <<"engine.ocr", "ok">>)
             /\ IF x = KeyboardInterrupt
                THEN LeaveLoop(x) /\ UNCHANGED exc
                ELSE pc' = "except" /\ exc' = <<x>> /\ UNCHANGED exit

\* line 203
max_recovery_retries == 1

\* Variant: every failure that is not permanent is recovered from.
WantsRecovery_not_permanent(e, count) ==
    classify_error(e) # PERMANENT /\ count < max_recovery_retries

\* Variant: the recovery budget is not looked at.
WantsRecovery_any_budget(e, count) ==
    classify_error(e) = TRANSIENT

\* line 229: the condition of the recovery branch
WantsRecovery(e, count) ==
    classify_error(e) = TRANSIENT /\ count < max_recovery_retries

\* Variant: a recovery that fails ends the attempt.
Recover_giving_up(env) ==
    /\ pc = "except"
    /\ WantsRecovery(exc[1], recovery_count)
    /\ recovery_count' = recovery_count + 1
    /\ UNCHANGED <<docs, runs, cfg, hasRepo, i, doc_id, run_id, attempt_no,
                   parent_run_id, exc, base, invocations, last_run, decision>>
    /\ LET db == hasRepo /\ run_id # 0
           s1 == IF db
                 THEN mark_step(steps, run_id, "recover_refresh", "started", <<>>)
                 ELSE steps
       IN \/ \* mark_step(started) raises: nothing catches it
             /\ db
             /\ \E x \in {ExcOther, KeyboardInterrupt} :
                /\ May(env, "mark_step", x)
                /\ LeaveLoop(x)
             /\ UNCHANGED <<steps, log>>
          \/ \* engine.recover() is interrupted
             /\ May(env, "engine.recover", KeyboardInterrupt)
             /\ log' = Append(log, Ended("engine.recover", KeyboardInterrupt))
             /\ steps' = s1
             /\ LeaveLoop(KeyboardInterrupt)
          \/ \* engine.recover() and mark_step(done) return: continue
             /\ steps' = IF db
                         THEN mark_step(s1, run_id, "recover_refresh", "done", <<>>)
                         ELSE s1
             /\ log' = Append(log, <<"engine.recover", "ok">>)
             /\ pc' = "try"
             /\ UNCHANGED exit
          \/ \* engine.recover() or mark_step(done) raises rec_e (line 240)
             \E rec_e \in Exceptions, at \in {"engine.recover", "mark_step"} :
             /\ May(env, at, rec_e)
             /\ (at = "mark_step") => db
             /\ log' = IF at = "engine.recover"
                       THEN Append(log, Ended("engine.recover", rec_e))
                       ELSE Append(log, <<"engine.recover", "ok">>)
             /\ \/ \* mark_step(failed) returns (or there is no repo): continue
                   /\ steps' = IF db
                               THEN mark_step(s1, run_id, "recover_refresh",
                                              "failed", Str(rec_e))
                               ELSE s1
                   /\ pc' = "next"
                   /\ UNCHANGED exit
                \/ \* mark_step(failed) raises: nothing catches it
                   /\ db
                   /\ \E x \in {ExcOther, KeyboardInterrupt} :
                      /\ May(env, "mark_step", x)
                      /\ LeaveLoop(x)
                   /\ steps' = s1
          \/ \* mark_step(done) is interrupted
             /\ db
             /\ May(env, "mark_step", KeyboardInterrupt)
             /\ steps' = s1
             /\ log' = Append(log, <<"engine.recover", "ok">>)
             /\ LeaveLoop(KeyboardInterrupt)

\* lines 224-250: except branch, recovery attempt, continue
Recover(env) ==
    /\ pc = "except"
    /\ WantsRecovery(exc[1], recovery_count)
    /\ recovery_count' = recovery_count + 1
    /\ UNCHANGED <<docs, runs, cfg, hasRepo, i, doc_id, run_id, attempt_no,
                   parent_run_id, exc, base, invocations, last_run, decision>>
    /\ LET db == hasRepo /\ run_id # 0
           s1 == IF db
                 THEN mark_step(steps, run_id, "recover_refresh", "started", <<>>)
                 ELSE steps
       IN \/ \* mark_step(started) raises: nothing catches it
             /\ db
             /\ \E x \in {ExcOther, KeyboardInterrupt} :
                /\ May(env, "mark_step", x)
                /\ LeaveLoop(x)
             /\ UNCHANGED <<steps, log>>
          \/ \* engine.recover() is interrupted
             /\ May(env, "engine.recover", KeyboardInterrupt)
             /\ log' = Append(log, Ended("engine.recover", KeyboardInterrupt))
             /\ steps' = s1
             /\ LeaveLoop(KeyboardInterrupt)
          \/ \* engine.recover() and mark_step(done) return: continue
             /\ steps' = IF db
                         THEN mark_step(s1, run_id, "recover_refresh", "done", <<>>)
                         ELSE s1
             /\ log' = Append(log, <<"engine.recover", "ok">>)
             /\ pc' = "try"
             /\ UNCHANGED exit
          \/ \* engine.recover() or mark_step(done) raises rec_e (line 240)
             \E rec_e \in Exceptions, at \in {"engine.recover", "mark_step"} :
             /\ May(env, at, rec_e)
             /\ (at = "mark_step") => db
             /\ log' = IF at = "engine.recover"
                       THEN Append(log, Ended("engine.recover", rec_e))
                       ELSE Append(log, <<"engine.recover", "ok">>)
             /\ \/ \* mark_step(failed) returns (or there is no repo): continue
                   /\ steps' = IF db
                               THEN mark_step(s1, run_id, "recover_refresh",
                                              "failed", Str(rec_e))
                               ELSE s1
                   /\ pc' = "try"
                   /\ UNCHANGED exit
                \/ \* mark_step(failed) raises: nothing catches it
                   /\ db
                   /\ \E x \in {ExcOther, KeyboardInterrupt} :
                      /\ May(env, "mark_step", x)
                      /\ LeaveLoop(x)
                   /\ steps' = s1
          \/ \* mark_step(done) is interrupted
             /\ db
             /\ May(env, "mark_step", KeyboardInterrupt)
             /\ steps' = s1
             /\ log' = Append(log, <<"engine.recover", "ok">>)
             /\ LeaveLoop(KeyboardInterrupt)

\* Variant: the failure is recorded without its error kind.
FailRun_without_kind(rs, rid, e) ==
    mark_run_status(rs, rid, "failed", Str(e), 0, "None")

\* lines 253-259: the row update of the final failure
FailRun(rs, rid, e) ==
    mark_run_status(rs, rid, "failed", Str(e), 0, classify_error(e))

\* lines 224-227, 252-266: except branch, final failure of the attempt, break
FinalFailure(env) ==
    /\ pc = "except"
    /\ ~WantsRecovery(exc[1], recovery_count)
    /\ UNCHANGED <<docs, cfg, hasRepo, i, doc_id, run_id, attempt_no,
                   parent_run_id, recovery_count, exc, log, base, invocations,
                   last_run, decision>>
    /\ LET db == hasRepo /\ run_id # 0
           e  == exc[1]
       IN IF ~db
          THEN /\ pc' = "next"
               /\ UNCHANGED <<runs, steps, exit>>
          ELSE \/ /\ runs' = FailRun(runs, run_id, e)
                  /\ steps' = mark_step(steps, run_id, "engine_finish", "failed", Str(e))
                  /\ pc' = "next"
                  /\ UNCHANGED exit
               \/ \E x \in {ExcOther, KeyboardInterrupt} :
                  /\ May(env, "mark_run_status", x)
                  /\ LeaveLoop(x)
                  /\ UNCHANGED <<runs, steps>>
               \/ \E x \in {ExcOther, KeyboardInterrupt} :
                  /\ May(env, "mark_step", x)
                  /\ runs' = FailRun(runs, run_id, e)
                  /\ LeaveLoop(x)
                  /\ UNCHANGED steps

\* line 154: the for loop takes the next image, or ends
NextFile ==
    /\ pc = "next"
    /\ IF i < NumFiles
       THEN /\ i' = i + 1
            /\ pc' = "preflight"
            /\ UNCHANGED exit
       ELSE /\ pc' = "finally"
            /\ exit' = "normal"
            /\ UNCHANGED i
    /\ log' = <<>>
    /\ steps' = <<>>
    /\ UNCHANGED <<docs, runs, cfg, hasRepo, localVars, base, invocations,
                   last_run, decision>>

\* How a call of the finally block can end under env.  Its faults are
\* followed where the environment lists the call; elsewhere it is taken to
\* return, since what engine.stop() and repo.close() do changes nothing the
\* driver or the tables keep.
Outcomes(env, name) ==
    {"ok"} \cup {Ended(name, x)[2] :
                    x \in {y \in Raisable : name \in env.raises /\ May(env, name, y)}}

\* Variant: an exception of engine.stop() leaves the finally block.
finally_calls_unguarded_stop(repo, stopped, closed) ==
    <<<<"engine.stop", stopped>>>> \o
    (IF stopped = "ok" /\ repo THEN <<<<"repo.close", closed>>>> ELSE <<>>)

\* lines 270-281: engine.stop() with 'except Exception: pass', then, if there
\* is a repo, repo.close() with the same guard.  A KeyboardInterrupt is not an
\* Exception: one that arrives in engine.stop() leaves the block.
finally_calls(repo, stopped, closed) ==
    <<<<"engine.stop", stopped>>>> \o
    (IF stopped # "interrupt" /\ repo THEN <<<<"repo.close", closed>>>> ELSE <<>>)

\* lines 270-281: engine.stop() and repo.close(), their exceptions swallowed.
\* main() calls repo.commit() nowhere: where the environment keeps only
\* committed writes, closing the connection discards what the invocation wrote.
Finally(env) ==
    /\ pc = "finally"
    /\ \E stopped \in Outcomes(env, "engine.stop"),
          closed \in Outcomes(env, "repo.close") :
          released' = finally_calls(hasRepo, stopped, closed)
    /\ pc' = "idle"
    /\ i' = 0
    /\ log' = <<>>
    /\ steps' = <<>>
    /\ doc_id' = 0 /\ run_id' = 0 /\ attempt_no' = 1 /\ parent_run_id' = 0
    /\ recovery_count' = 0 /\ exc' = <<>>
    /\ last_run' = <<>> /\ decision' = <<>>
    /\ cfg' = NoConfig /\ hasRepo' = FALSE
    /\ exit' = "none"
    /\ IF hasRepo /\ ~env.keeps_writes
       THEN docs' = committed.docs /\ runs' = committed.runs
       ELSE UNCHANGED <<docs, runs>>
    /\ UNCHANGED <<base, invocations>>

\* no call of classify_error is being checked
ClassifyAtRest == failure = ExcOther /\ classified = <<>>

\* Pipeline.run() is not being followed
PipelineAtRest ==
    /\ file_limit = 0 /\ processed = 0 /\ outcome = "idle"
    /\ tables = [documents |-> [f \in Files |-> "absent"], entries |-> {}]
    /\ saved = tables
    /\ dbcalls = <<>>

\* retry_call is not being followed
RetryAtRest ==
    /\ retries = 0 /\ backoff_ms = 0 /\ retry_on = {}
    /\ attempts_made = 0 /\ fn_calls = <<>> /\ ending = <<>>

\* lines 25-28: a WorkerPool as __init__ leaves it (size = 1 by default)
NewPool ==
    /\ workers = <<>>
    /\ current_worker_index = 0
    /\ jobs_since_start = 0
    /\ last_job = <<>>

PoolAtRest == size = 1 /\ NewPool

OthersAtRest == ClassifyAtRest /\ PipelineAtRest /\ RetryAtRest /\ PoolAtRest

\* main() is not running and no policy call is being checked
DriverAtRest ==
    /\ InitDriver
    /\ last_run = <<>> /\ dcfg = NoConfig /\ decision = <<>>

Init ==
    /\ InitDriver
    /\ last_run = <<>> /\ dcfg = NoConfig /\ decision = <<>>
    /\ OthersAtRest

\* The configurations of an invocation that finds no history: of the retry
\* settings only retry_failed is read then (retry_logic.py:27-32, cli.py:181).
FirstRunConfigs ==
    {c \in DriverConfigs : c.max_attempts = MaxAttemptsDriver /\ ~c.force /\ ~c.resume}

\* Every call may raise and an interrupt may arrive anywhere; one invocation,
\* which starts on empty tables, is followed.
FullEnv ==
    [raises |-> AllCalls, interrupts |-> TRUE, repo |-> BOOLEAN,
     limit |-> 1, configs |-> FirstRunConfigs, keeps_writes |-> FALSE]

Next ==
    \/ (StartInvocation(FullEnv) /\ UNCHANGED <<dcfg, last_run, decision, committed, otherVars>>)
    \/ (Preflight(FullEnv) /\ UNCHANGED <<dcfg, committed, released, otherVars>>)
    \/ (CreateRun(FullEnv) /\ UNCHANGED <<dcfg, committed, released, otherVars>>)
    \/ (TryBody(FullEnv) /\ UNCHANGED <<dcfg, committed, released, otherVars>>)
    \/ (Recover(FullEnv) /\ UNCHANGED <<dcfg, committed, released, otherVars>>)
    \/ (FinalFailure(FullEnv) /\ UNCHANGED <<dcfg, committed, released, otherVars>>)
    \/ (NextFile /\ UNCHANGED <<dcfg, committed, released, otherVars>>)
    \/ (Finally(FullEnv) /\ UNCHANGED <<dcfg, committed, otherVars>>)

Spec == Init /\ [][Next]_vars

\* Any number of invocations with a database, one after the other, over a
\* run table of at most MaxRuns rows.  The engine and the history lookup of
\* the pre-flight may raise and an interrupt may arrive anywhere; the other
\* calls return.  (A failure of a repository call made once a run exists
\* leaves the run row in a state an interrupt or an engine failure leaves it
\* in as well, in the columns get_latest_run reads.)
HistoryEnv ==
    [raises |-> {"engine.ocr", "engine.recover", "get_latest_run"},
     interrupts |-> TRUE, repo |-> {TRUE}, limit |-> 0, configs |-> DriverConfigs,
     keeps_writes |-> TRUE]

NextHistory ==
    \/ (StartInvocation(HistoryEnv) /\ UNCHANGED <<dcfg, last_run, decision, committed, otherVars>>)
    \/ (Preflight(HistoryEnv) /\ UNCHANGED <<dcfg, committed, released, otherVars>>)
    \/ (CreateRun(HistoryEnv) /\ UNCHANGED <<dcfg, committed, released, otherVars>>)
    \/ (TryBody(HistoryEnv) /\ UNCHANGED <<dcfg, committed, released, otherVars>>)
    \/ (Recover(HistoryEnv) /\ UNCHANGED <<dcfg, committed, released, otherVars>>)
    \/ (FinalFailure(HistoryEnv) /\ UNCHANGED <<dcfg, committed, released, otherVars>>)
    \/ (NextFile /\ UNCHANGED <<dcfg, committed, released, otherVars>>)
    \/ (Finally(HistoryEnv) /\ UNCHANGED <<dcfg, committed, otherVars>>)

SpecHistory == Init /\ [][NextHistory]_vars

\* The calls of the pre-flight, whose exceptions are caught at line 179 and
\* never leave the for loop
PreflightCalls == {"sha256_file", "get_or_create_document", "get_latest_run"}

\* One invocation on empty tables in which every call whose exception can
\* leave the for loop may raise, an interrupt may arrive anywhere, and
\* engine.stop() and repo.close() may raise or be interrupted.
ReleaseEnv ==
    [raises |-> (AllCalls \ PreflightCalls) \cup FinallyCalls,
     interrupts |-> TRUE, repo |-> BOOLEAN, limit |-> 1,
     configs |-> FirstRunConfigs, keeps_writes |-> FALSE]

NextRelease ==
    \/ (StartInvocation(ReleaseEnv) /\ UNCHANGED <<dcfg, last_run, decision, committed, otherVars>>)
    \/ (Preflight(ReleaseEnv) /\ UNCHANGED <<dcfg, committed, released, otherVars>>)
    \/ (CreateRun(ReleaseEnv) /\ UNCHANGED <<dcfg, committed, released, otherVars>>)
    \/ (TryBody(ReleaseEnv) /\ UNCHANGED <<dcfg, committed, released, otherVars>>)
    \/ (Recover(ReleaseEnv) /\ UNCHANGED <<dcfg, committed, released, otherVars>>)
    \/ (FinalFailure(ReleaseEnv) /\ UNCHANGED <<dcfg, committed, released, otherVars>>)
    \/ (NextFile /\ UNCHANGED <<dcfg, committed, released, otherVars>>)
    \/ (Finally(ReleaseEnv) /\ UNCHANGED <<dcfg, committed, otherVars>>)

SpecRelease == Init /\ [][NextRelease]_vars

\* One invocation in which engine.ocr and engine.recover may raise and an
\* interrupt may arrive anywhere.  main() is a sequential program: it takes
\* its next step whenever it has one.
AttemptEnv ==
    [raises |-> {"engine.ocr", "engine.recover"}, interrupts |-> TRUE,
     repo |-> BOOLEAN, limit |-> 1, configs |-> FirstRunConfigs,
     keeps_writes |-> TRUE]

NextAttempt ==
    \/ (StartInvocation(AttemptEnv) /\ UNCHANGED <<dcfg, last_run, decision, committed, otherVars>>)
    \/ (Preflight(AttemptEnv) /\ UNCHANGED <<dcfg, committed, released, otherVars>>)
    \/ (CreateRun(AttemptEnv) /\ UNCHANGED <<dcfg, committed, released, otherVars>>)
    \/ (TryBody(AttemptEnv) /\ UNCHANGED <<dcfg, committed, released, otherVars>>)
    \/ (Recover(AttemptEnv) /\ UNCHANGED <<dcfg, committed, released, otherVars>>)
    \/ (FinalFailure(AttemptEnv) /\ UNCHANGED <<dcfg, committed, released, otherVars>>)
    \/ (NextFile /\ UNCHANGED <<dcfg, committed, released, otherVars>>)
    \/ (Finally(AttemptEnv) /\ UNCHANGED <<dcfg, committed, otherVars>>)

SpecAttempt == Init /\ [][NextAttempt]_vars /\ WF_vars(NextAttempt)

InitDecide ==
    /\ InitDriver
    /\ last_run \in {<<>>} \cup {<<r>> : r \in RunSnapshots}
    /\ dcfg \in Configs
    /\ decision = <<>>
    /\ OthersAtRest

\* one call of decide_retry_action(last_run, cfg)
Decide ==
    /\ decision = <<>>
    /\ decision' = <<decide_retry_action(last_run, dcfg)>>
    /\ UNCHANGED <<last_run, dcfg>>
    /\ UNCHANGED <<driverVars, otherVars>>

NextDecide == Decide

SpecDecide == InitDecide /\ [][NextDecide]_vars

\* ------------------------------------------------------------------------
\* engine/errors.py : classify_error called on every exception
\* ------------------------------------------------------------------------
InitClassify ==
    /\ InitDriver
    /\ last_run = <<>> /\ dcfg = NoConfig /\ decision = <<>>
    /\ failure \in Failures
    /\ classified = <<>>
    /\ PipelineAtRest /\ RetryAtRest /\ PoolAtRest

\* one call of classify_error(e)
Classify ==
    /\ classified = <<>>
    /\ classified' = <<classify_error(failure)>>
    /\ UNCHANGED <<failure, driverVars, decideVars, pipelineVars, retryVars, poolVars>>

NextClassify == Classify

SpecClassify == InitClassify /\ [][NextClassify]_vars

\* ------------------------------------------------------------------------
\* pipeline.py : Pipeline.run and Pipeline._process_one
\* ------------------------------------------------------------------------
\* lines 107-185: the calls of the try block, in order
TryCalls ==
    <<"upsert_document", "write_outputs", "upsert_entry", "upsert_document",
      "commit">>

\* Variant: the except branch does not roll back.
process_one_calls_without_rollback(k, x, rb, em) ==
    IF k = 0
    THEN [j \in 1..Len(TryCalls) |-> <<TryCalls[j], "ok">>]
    ELSE [j \in 1..k |-> <<TryCalls[j], IF j < k THEN "ok" ELSE x>>] \o
         (IF x # "raise" THEN <<>> ELSE <<<<"write_outputs", em>>>>)

\* lines 104-223: the calls _process_one makes when call k of the try block
\* ends as x (k = 0: every call returns), rollback() ends as rb and the
\* writing of the error meta as em.  'except Exception' (189) does not catch a
\* KeyboardInterrupt, and neither do the guards of lines 193 and 220.
process_one_calls(k, x, rb, em) ==
    IF k = 0
    THEN [j \in 1..Len(TryCalls) |-> <<TryCalls[j], "ok">>]
    ELSE [j \in 1..k |-> <<TryCalls[j], IF j < k THEN "ok" ELSE x>>] \o
         (IF x # "raise" THEN <<>>
          ELSE <<<<"rollback", rb>>>> \o
               (IF rb = "interrupt" THEN <<>> ELSE <<<<"write_outputs", em>>>>))

\* what the connection sees of file f after the first n calls of the try
\* block returned: upsert_document(status='processing'), upsert_entry,
\* upsert_document(status='done')
AfterCalls(t, f, n) ==
    [documents |-> [t.documents EXCEPT ![f] =
                        IF n >= 4 THEN "done" ELSE IF n >= 1 THEN "processing" ELSE @],
     entries |-> IF n >= 3 THEN t.entries \cup {f} ELSE t.entries]

\* lines 77-79: the files iter_files yields under cfg.limit
FilesTaken == IF file_limit = 0 THEN NumFiles
              ELSE IF file_limit < NumFiles THEN file_limit ELSE NumFiles

\* how a call of _process_one can end other than by returning
Ways == {"raise", "interrupt"}

\* Pipeline.run() is called on a database that earlier runs have filled
InitPipeline ==
    /\ DriverAtRest
    /\ ClassifyAtRest /\ RetryAtRest /\ PoolAtRest
    /\ file_limit \in 0..NumFiles
    /\ processed = 0
    /\ outcome = "running"
    /\ saved \in {[documents |-> d, entries |-> {f \in Files : d[f] = "done"}] :
                     d \in [Files -> {"absent", "done"}]}
    /\ tables = saved
    /\ dbcalls = <<>>

\* lines 82-84 and 88-223: the loop of run() takes the next file and calls
\* _process_one, which commits, or rolls back and raises
ProcessOne ==
    /\ outcome = "running"
    /\ processed' = processed + 1
    /\ \E k \in 0..Len(TryCalls), x \in Ways, rb \in Ways \cup {"ok"},
          em \in Ways \cup {"ok"} :
          /\ dbcalls' = process_one_calls(k, x, rb, em)
          /\ IF k = 0
             THEN /\ tables' = AfterCalls(tables, processed', 4)
                  /\ saved' = tables'
                  /\ outcome' = IF processed' = FilesTaken THEN "returned" ELSE "running"
             ELSE /\ tables' = IF \E j \in 1..Len(dbcalls') : dbcalls'[j] = <<"rollback", "ok">>
                                THEN saved
                                ELSE AfterCalls(tables, processed', IF k = 5 THEN 4 ELSE k - 1)
                  /\ saved' = saved
                  /\ outcome' = "raised"
    /\ UNCHANGED <<file_limit, driverVars, decideVars, classifyVars, retryVars,
                   poolVars>>

NextPipeline == ProcessOne

SpecPipeline == InitPipeline /\ [][NextPipeline]_vars

\* ------------------------------------------------------------------------
\* utils.py : retry_call
\* ------------------------------------------------------------------------
\* The exception classes fn raises in this model, and the values of
\* backoff_ms tried: time.sleep raises ValueError on a negative length.
ErrorClasses == {"MyError", "ValueError"}
Backoffs == {-1, 0, 10}

\* Variant: one more retry is allowed.
Exhausted_late(attempt, n) == attempt > n

\* line 31: if attempt >= retries
Exhausted(attempt, n) == attempt >= n

\* line 32: raise e, the exception of the call that just failed
Raised(k) == <<"raise", k>>

\* retry_call(fn, retries, backoff_ms, retry_on) is entered
InitRetry ==
    /\ DriverAtRest
    /\ ClassifyAtRest /\ PipelineAtRest /\ PoolAtRest
    /\ retries \in 0..MaxRetries
    /\ backoff_ms \in Backoffs
    /\ retry_on \in SUBSET ErrorClasses
    /\ attempts_made = 0
    /\ fn_calls = <<>>
    /\ ending = <<>>

\* lines 27-34: one pass of the loop: fn() is called and returns or raises
CallFn ==
    /\ ending = <<>>
    /\ \E o \in {"ok"} \cup ErrorClasses :
        LET k == Len(fn_calls) + 1
        IN /\ fn_calls' = Append(fn_calls, o)
           /\ IF o = "ok"
              THEN ending' = <<"return", k>> /\ UNCHANGED attempts_made
              ELSE IF o \notin retry_on
              THEN ending' = Raised(k) /\ UNCHANGED attempts_made   \* not caught
              ELSE IF Exhausted(attempts_made, retries)
              THEN ending' = Raised(k) /\ UNCHANGED attempts_made
              ELSE /\ attempts_made' = attempts_made + 1
                   /\ ending' = IF backoff_ms < 0 THEN <<"raise", 0>> ELSE <<>>
    /\ UNCHANGED <<retries, backoff_ms, retry_on, driverVars, decideVars,
                   classifyVars, pipelineVars, poolVars>>

NextRetry == CallFn

SpecRetry == InitRetry /\ [][NextRetry]_vars /\ WF_vars(NextRetry)

\* ------------------------------------------------------------------------
\* ui/worker_pool.py : WorkerPool
\* ------------------------------------------------------------------------
\* WorkerPool(size) is constructed
InitPool ==
    /\ DriverAtRest
    /\ ClassifyAtRest /\ PipelineAtRest /\ RetryAtRest
    /\ size \in 0..MaxSize
    /\ NewPool

\* lines 30-35: start() appends Worker(id=0) .. Worker(id=size-1)
PoolStart ==
    /\ Len(workers) + size <= MaxWorkers
    /\ workers' = workers \o [j \in 1..size |-> j - 1]
    /\ jobs_since_start' = 0
    /\ UNCHANGED <<size, current_worker_index, last_job>>

\* lines 37-39: stop() clears the list
PoolStop ==
    /\ workers' = <<>>
    /\ UNCHANGED <<size, current_worker_index, jobs_since_start, last_job>>

\* lines 41-48: get_next_worker(); Python list index i is position i + 1
get_next_worker ==
    IF workers = <<>>
    THEN [raised |-> "Worker pool not started", worker |-> -1,
          next_index |-> current_worker_index]
    ELSE IF current_worker_index >= Len(workers)
    THEN [raised |-> "IndexError", worker |-> -1,
          next_index |-> current_worker_index]
    ELSE [raised |-> "", worker |-> workers[current_worker_index + 1],
          next_index |-> (current_worker_index + 1) % Len(workers)]

\* lines 50-57: submit_job(job_func) runs the job on the next worker
SubmitJob ==
    /\ jobs_since_start < MaxJobs
    /\ LET got == get_next_worker
       IN /\ current_worker_index' = got.next_index
          /\ last_job' = <<[raised |-> got.raised, worker |-> got.worker,
                            had_workers |-> workers # <<>>,
                            expected |-> IF size = 0 THEN 0
                                         ELSE jobs_since_start % size]>>
    /\ jobs_since_start' = jobs_since_start + 1
    /\ UNCHANGED <<size, workers>>

NextPool ==
    \/ (PoolStart /\ UNCHANGED <<driverVars, decideVars, classifyVars, pipelineVars, retryVars>>)
    \/ (PoolStop /\ UNCHANGED <<driverVars, decideVars, classifyVars, pipelineVars, retryVars>>)
    \/ (SubmitJob /\ UNCHANGED <<driverVars, decideVars, classifyVars, pipelineVars, retryVars>>)

SpecPool == InitPool /\ [][NextPool]_vars

\* ------------------------------------------------------------------------
\* db/repo.py called directly, under varying pipeline names
\* ------------------------------------------------------------------------
\* repo.get_or_create_document(path)
RepoGetOrCreateDocument ==
    /\ pc = "idle"
    /\ \E f \in Files : docs' = get_or_create_document(docs, f)
    /\ UNCHANGED <<runs, steps, pc, cfg, hasRepo, i, localVars, exit, log, base,
                   invocations, committed, released, decideVars, otherVars>>

\* repo.create_run(doc_id, pipeline, attempt_no=.., parent_run_id=..) for a
\* doc_id that get_or_create_document returned
RepoCreateRun ==
    /\ pc = "idle"
    /\ Len(runs) < MaxRuns
    /\ \E d \in Files, p \in Pipelines, a \in 1..MaxPrevAttempt, par \in 0..Len(runs) :
          /\ docs[d] # "absent"
          /\ docs' = create_run_update_doc(docs, d, p)
          /\ runs' = create_run_insert(runs, d, p, "queued", a, par)
    /\ UNCHANGED <<steps, pc, cfg, hasRepo, i, localVars, exit, log, base,
                   invocations, committed, released, decideVars, otherVars>>

NextRepo == RepoGetOrCreateDocument \/ RepoCreateRun

\* repo.create_run(doc_id, pipeline) with the defaults of its signature
\* (status queued, attempt_no 1, no parent)
RepoCreateFirstRun ==
    /\ pc = "idle"
    /\ Len(runs) < MaxRuns
    /\ \E d \in Files, p \in Pipelines :
          /\ docs[d] # "absent"
          /\ docs' = create_run_update_doc(docs, d, p)
          /\ runs' = create_run_insert(runs, d, p, "queued", 1, 0)
    /\ UNCHANGED <<steps, pc, cfg, hasRepo, i, localVars, exit, log, base,
                   invocations, committed, released, decideVars, otherVars>>

\* repo.mark_run_status(run_id, status) on a run that exists
RepoMarkRunStatus ==
    /\ pc = "idle"
    /\ \E r \in 1..Len(runs), st \in {"processing", "done", "failed"} :
          runs' = mark_run_status(runs, r, st, <<>>, 0, "None")
    /\ UNCHANGED <<docs, steps, pc, cfg, hasRepo, i, localVars, exit, log, base,
                   invocations, committed, released, decideVars, otherVars>>

NextRepoStatus == RepoGetOrCreateDocument \/ RepoCreateFirstRun \/ RepoMarkRunStatus

\* ------------------------------------------------------------------------
\* pipeline.py : Pipeline, run between invocations of main()
\* ------------------------------------------------------------------------
\* legacy/db_writer.py:68-128: upsert by source path; the pipeline column is
\* overwritten
upsert_document(d, f, pipeline) == [d EXCEPT ![f] = pipeline]

\* pipeline.py:88-170: Pipeline._process_one handles one file and commits.  It
\* writes ocr_document and ocr_entry, and no row of ocr_run.
OtherPipeline ==
    /\ pc = "idle"
    /\ \E f \in Files : docs' = upsert_document(docs, f, STAGE1)
    /\ UNCHANGED <<runs, steps, pc, cfg, hasRepo, i, localVars, exit, log, base,
                   invocations, committed, released, decideVars, otherVars>>

\* The configurations under which the driver continues a document's history
\* only through a failed or unfinished run (retry_logic.py:43-118 without the
\* force branch), with the larger attempt budget.
LineageConfigs ==
    {c \in DriverConfigs : c.max_attempts = MaxAttemptsDriver /\ ~c.force}

\* Invocations of main() under "gemini-ui-cli", one after the other, with
\* runs of the Pipeline of pipeline.py on the same documents in between.  The
\* history lookup of the pre-flight and engine.ocr may raise and an interrupt
\* may arrive anywhere.
PipelinesEnv ==
    [raises |-> {"get_latest_run", "engine.ocr"}, interrupts |-> TRUE,
     repo |-> {TRUE}, limit |-> 0, configs |-> LineageConfigs,
     keeps_writes |-> TRUE]

NextPipelines ==
    \/ (StartInvocation(PipelinesEnv) /\ UNCHANGED <<dcfg, last_run, decision, committed, otherVars>>)
    \/ (Preflight(PipelinesEnv) /\ UNCHANGED <<dcfg, committed, released, otherVars>>)
    \/ (CreateRun(PipelinesEnv) /\ UNCHANGED <<dcfg, committed, released, otherVars>>)
    \/ (TryBody(PipelinesEnv) /\ UNCHANGED <<dcfg, committed, released, otherVars>>)
    \/ (Recover(PipelinesEnv) /\ UNCHANGED <<dcfg, committed, released, otherVars>>)
    \/ (FinalFailure(PipelinesEnv) /\ UNCHANGED <<dcfg, committed, released, otherVars>>)
    \/ (NextFile /\ UNCHANGED <<dcfg, committed, released, otherVars>>)
    \/ (Finally(PipelinesEnv) /\ UNCHANGED <<dcfg, committed, otherVars>>)
    \/ OtherPipeline

SpecPipelines == Init /\ [][NextPipelines]_vars

SpecRepo == Init /\ [][NextRepo]_vars

SpecRepoStatus == Init /\ [][NextRepoStatus]_vars

\* ------------------------------------------------------------------------
\* Properties of decide_retry_action (checked under SpecDecide)
\* ------------------------------------------------------------------------
Decided  == decision # <<>>
HasPrior == last_run # <<>>
Prior    == last_run[1]
Result   == decision[1]
OptIn    == dcfg.resume \/ dcfg.retry_failed
\* the kind rule 5d looks up: prior.error_kind, or "unknown" when it is absent
PriorKind == IF Prior.error_kind = "None" THEN "unknown" ELSE Prior.error_kind

\* C3: with force set, every prior run (any status, attempt number, error
\* kind) is processed again as attempt prior.attempt_no + 1 with the prior
\* run as parent, whatever the other flags are.
C3_ForceAlwaysProcesses ==
    (Decided /\ HasPrior /\ dcfg.force) =>
        /\ Result.should_process
        /\ Result.attempt_no = Prior.attempt_no + 1
        /\ Result.parent_run_id = Prior.run_id

C3_Witness ==
    /\ Decided /\ HasPrior /\ dcfg.force
    /\ Prior.status = "done" /\ Prior.attempt_no = 2
    /\ ~dcfg.resume /\ ~dcfg.retry_failed /\ dcfg.max_attempts = 1
    /\ Result.should_process /\ Result.attempt_no = 3

\* C4: without history the decision is "process, attempt 1, no parent"
\* when retry_failed is unset and "skip" when retry_failed is set.
C4_FreshRun ==
    (Decided /\ ~HasPrior) =>
        IF dcfg.retry_failed
        THEN ~Result.should_process
        ELSE /\ Result.should_process
             /\ Result.attempt_no = 1
             /\ Result.parent_run_id = 0

C4_Witness ==
    /\ Decided /\ ~HasPrior /\ dcfg.retry_failed /\ dcfg.force
    /\ ~Result.should_process

\* C5: a prior run with status skipped is never processed again unless
\* force is set, whatever resume and retry_failed are.
C5_SkippedNeedsForce ==
    (Decided /\ HasPrior /\ Prior.status = "skipped" /\ ~dcfg.force) =>
        ~Result.should_process

\* C7: a failed prior run under resume/retry_failed (force unset) is skipped
\* once prior.attempt_no >= max_attempts, whatever its error kind; at
\* prior.attempt_no = max_attempts - 1 with a retry-eligible kind it is
\* processed as attempt max_attempts.
C7_MaxAttemptsBoundary ==
    (Decided /\ HasPrior /\ Prior.status = "failed" /\ ~dcfg.force /\ OptIn) =>
        /\ (Prior.attempt_no >= dcfg.max_attempts) => ~Result.should_process
        /\ ( /\ Prior.attempt_no = dcfg.max_attempts - 1
             /\ PriorKind # PERMANENT
             /\ PriorKind \in dcfg.retry_error_kinds )
           => (Result.should_process /\ Result.attempt_no = dcfg.max_attempts)

C7_Witness ==
    /\ Decided /\ HasPrior /\ Prior.status = "failed" /\ ~dcfg.force /\ OptIn
    /\ Prior.attempt_no = dcfg.max_attempts
    /\ Prior.error_kind = TRANSIENT /\ TRANSIENT \in dcfg.retry_error_kinds
    /\ ~Result.should_process

\* C8: a failed prior run under resume/retry_failed (force unset), below the
\* attempt limit and not permanent, is processed exactly when its kind
\* ("unknown" when absent) is a member of retry_error_kinds.
C8_RetryKindMembership ==
    ( /\ Decided /\ HasPrior /\ Prior.status = "failed" /\ ~dcfg.force /\ OptIn
      /\ Prior.attempt_no < dcfg.max_attempts
      /\ Prior.error_kind # PERMANENT )
    => (Result.should_process <=> PriorKind \in dcfg.retry_error_kinds)

C8_Witness ==
    /\ Decided /\ HasPrior /\ Prior.status = "failed" /\ ~dcfg.force /\ OptIn
    /\ Prior.attempt_no < dcfg.max_attempts
    /\ Prior.error_kind = "None"
    /\ dcfg.retry_error_kinds = {UNKNOWN}
    /\ Result.should_process

\* C9: a failed prior run is skipped when none of force, resume and
\* retry_failed is set, whatever its error kind and attempt number.
C9_FailedNeedsOptIn ==
    (Decided /\ HasPrior /\ Prior.status = "failed" /\ ~dcfg.force /\ ~OptIn) =>
        ~Result.should_process

C9_Witness ==
    /\ Decided /\ HasPrior /\ Prior.status = "failed" /\ ~dcfg.force /\ ~OptIn
    /\ Prior.error_kind = TRANSIENT /\ Prior.attempt_no = 1
    /\ dcfg.max_attempts = 3 /\ TRANSIENT \in dcfg.retry_error_kinds
    /\ ~Result.should_process

\* ------------------------------------------------------------------------
\* Properties of the driver (checked under SpecHistory)
\* ------------------------------------------------------------------------
Terminal(r) == runs[r].status \in {"done", "failed"}

\* the run the driver created for the image it is handling, if any
HasRun == hasRepo /\ run_id # 0

\* the pre-flight of the current image returned a decision / raised
PreflightDecided == hasRepo /\ decision # <<>>
PreflightRaised  == hasRepo /\ decision = <<>>

\* C1: when the driver moves on from an image without having been
\* interrupted, the run it created for it is done or failed, whatever the
\* engine raised; a failed run carries the kind and the message of the
\* exception that ended the attempt; no run of the invocation is left queued
\* or processing.
C1_RunsEndTerminal ==
    /\ (pc = "next" /\ HasRun) =>
          /\ Terminal(run_id)
          /\ runs[run_id].status = "failed" =>
                /\ exc # <<>>
                /\ runs[run_id].error_kind = classify_error(exc[1])
                /\ runs[run_id].error_message = Str(exc[1])
    /\ (pc \in {"preflight", "create", "try", "except", "next"}
          \/ (pc = "finally" /\ exit = "normal")) =>
          \A r \in (base + 1)..Len(runs) :
              (r # run_id \/ pc \in {"preflight", "next", "finally"}) => Terminal(r)

\* a transient failure, a failed recovery, then a permanent failure
C1_Witness ==
    /\ pc = "next" /\ HasRun
    /\ log = <<<<"engine.ocr", "raise">>, <<"engine.recover", "raise">>,
               <<"engine.ocr", "raise">>>>
    /\ exc = <<ExcLogin>>
    /\ runs[run_id].status = "failed"
    /\ runs[run_id].error_kind = PERMANENT

\* C2: when decide_retry_action says skip, the iteration for that image ends
\* at once: no run row and no step row is written or changed, the engine is
\* not called, and the same decision is taken when the image is examined
\* again with the same flags.
C2_SkipWritesNothing ==
    [][ (pc = "preflight" /\ decision' # <<>> /\ ~decision'[1].should_process) =>
          /\ pc' = "next"
          /\ runs' = runs
          /\ steps' = steps
          /\ log' = log
          /\ run_id' = 0
          /\ ~decide_retry_action(get_latest_run(docs', runs', i, PIPELINE),
                                  cfg).should_process ]_vars

\* the second image of an invocation is skipped as already done
C2_Witness ==
    /\ pc = "next" /\ i = 2 /\ PreflightDecided
    /\ ~decision[1].should_process
    /\ last_run # <<>> /\ last_run[1].status = "done"
    /\ ~cfg.force
    /\ run_id = 0 /\ steps = <<>> /\ log = <<>> /\ Len(runs) = 2

\* the latest run of document d, as the pre-flight would see it
Latest(d) == get_latest_run(docs, runs, d, PIPELINE)

\* the latest run document d had before run r was created
LatestBefore(d, r) ==
    get_latest_run(docs, SubSeq(runs, 1, r - 1), d, PIPELINE)

FailedPermanently(l) ==
    l # <<>> /\ l[1].status = "failed" /\ l[1].error_kind = PERMANENT

\* the driver has just created a run for a document whose latest run had
\* failed permanently, without force
SupersededPermanent ==
    /\ HasRun /\ ~cfg.force
    /\ runs[run_id].doc_id # 0
    /\ FailedPermanently(LatestBefore(runs[run_id].doc_id, run_id))

\* the policy skips every permanently failed latest run an invocation can
\* find (the rows of a document do not change in an invocation before its
\* pre-flight), whatever the other settings are; so does the pre-flight
SkippedUnlessForced(l) ==
    \A c \in Configs : ~c.force => ~decide_retry_action(l, c).should_process

PermanentNeverRetried ==
    /\ pc = "idle" =>
          \A d \in Files :
              FailedPermanently(Latest(d)) => SkippedUnlessForced(Latest(d))
    /\ (PreflightDecided /\ FailedPermanently(last_run) /\ ~cfg.force) =>
          ~decision[1].should_process

Incomplete(l) == l # <<>> /\ l[1].status \in {"processing", "queued"}

ResumedAs(l, c, a) ==
    /\ a.should_process <=> (c.resume \/ c.retry_failed)
    /\ a.attempt_no = l[1].attempt_no + 1
    /\ a.parent_run_id = l[1].run_id

ResumedOnOptIn(l) ==
    \A c \in Configs : ~c.force => ResumedAs(l, c, decide_retry_action(l, c))

\* C10: a latest run left processing or queued is processed again, force
\* unset, exactly when resume or retry_failed is set, as attempt
\* prior.attempt_no + 1 with the prior run as parent; the run the driver then
\* creates supersedes the interrupted run with exactly this linkage.
C10_ResumeIncomplete ==
    /\ pc = "idle" =>
          \A d \in Files : Incomplete(Latest(d)) => ResumedOnOptIn(Latest(d))
    /\ (PreflightDecided /\ Incomplete(last_run) /\ ~cfg.force) =>
          ResumedAs(last_run, cfg, decision[1])
    /\ (HasRun /\ PreflightDecided /\ ~cfg.force /\ Incomplete(last_run)) =>
          /\ cfg.resume \/ cfg.retry_failed
          /\ runs[run_id].parent_run_id = last_run[1].run_id
          /\ runs[run_id].attempt_no = last_run[1].attempt_no + 1
          /\ runs[run_id].doc_id = runs[last_run[1].run_id].doc_id
          /\ run_id > last_run[1].run_id

\* a run left processing by an interrupt is superseded under --resume
C10_Witness ==
    /\ pc = "try" /\ HasRun /\ PreflightDecided
    /\ cfg.resume /\ ~cfg.retry_failed /\ ~cfg.force
    /\ Incomplete(last_run) /\ last_run[1].status = "processing"
    /\ runs[run_id].parent_run_id = 1 /\ runs[run_id].attempt_no = 2
    /\ runs[1].status = "processing"

\* the runs document d had before run r was created
EarlierRuns(d, r) == {q \in 1..(r - 1) : runs[q].doc_id = d}

\* run r is linked to the run that was the latest of its document when r was
\* created, or starts a chain
Linked(r) ==
    IF runs[r].parent_run_id # 0
    THEN /\ runs[r].parent_run_id \in EarlierRuns(runs[r].doc_id, r)
         /\ runs[r].parent_run_id = MaxOf(EarlierRuns(runs[r].doc_id, r))
         /\ runs[r].attempt_no = runs[runs[r].parent_run_id].attempt_no + 1
    ELSE runs[r].attempt_no = 1

\* no step removes a row or changes the attempt number or the parent of one
LinkageKept ==
    /\ Len(runs') >= Len(runs)
    /\ \A r \in 1..Len(runs) :
          /\ runs'[r].attempt_no = runs[r].attempt_no
          /\ runs'[r].parent_run_id = runs[r].parent_run_id

\* C11: every run with a parent has the attempt number of its parent plus
\* one, and its parent is the run that was the latest of its document when it
\* was created; every run without a parent is attempt 1; attempt number and
\* parent of a row never change.
C11_AttemptChain ==
    /\ [](\A r \in 1..Len(runs) : Linked(r))
    /\ [][LinkageKept]_vars

\* a second attempt linked to the failed first one
C11_Witness ==
    /\ Len(runs) = 2
    /\ runs[1].status = "failed" /\ runs[1].attempt_no = 1
    /\ runs[2].doc_id = runs[1].doc_id
    /\ runs[2].parent_run_id = 1 /\ runs[2].attempt_no = 2
    /\ runs[2].status = "done"

\* ------------------------------------------------------------------------
\* Properties of the repository (checked under SpecRepo)
\* ------------------------------------------------------------------------
\* the pipeline under which the latest run of document d was created
LatestMadeUnder(d) == runs[MaxOf(RunsOfDoc(runs, d))].made_under

OwnHistoryOnly(d, p, l) ==
    /\ (RunsOfDoc(runs, d) # {} /\ LatestMadeUnder(d) # p) => l = <<>>
    /\ l # <<>> => /\ runs[l[1].run_id].made_under = p
                   /\ runs[l[1].run_id].doc_id = d

\* C13: after any sequence of create_run calls under varying pipeline names,
\* get_latest_run(doc_id, pipeline) returns None when the latest run of the
\* document was created under another pipeline name, and never returns a run
\* created under another pipeline name.
C13_NoCrossPipelineHistory ==
    \A d \in Files, p \in Pipelines :
        OwnHistoryOnly(d, p, get_latest_run(docs, runs, d, p))

\* a document whose first run was made under one pipeline and whose second
\* under the other: the first pipeline sees no history, the second its own run
C13_Witness ==
    /\ Len(runs) = 2
    /\ runs[1].doc_id = 1 /\ runs[2].doc_id = 1
    /\ runs[1].made_under = PIPELINE /\ runs[2].made_under = STAGE1
    /\ get_latest_run(docs, runs, 1, PIPELINE) = <<>>
    /\ get_latest_run(docs, runs, 1, STAGE1) # <<>>
    /\ get_latest_run(docs, runs, 1, STAGE1)[1].run_id = 2

\* ------------------------------------------------------------------------
\* Properties of the attempt numbering (checked under SpecPipelines)
\* ------------------------------------------------------------------------
SameLineage(r1, r2) ==
    /\ runs[r1].doc_id = runs[r2].doc_id
    /\ runs[r1].made_under = runs[r2].made_under

\* a run of the same document without a parent was created after r1, up to r2
RestartBetween(r1, r2) ==
    \E q \in (r1 + 1)..r2 :
        runs[q].doc_id = runs[r1].doc_id /\ runs[q].parent_run_id = 0

\* C12 as stated: for one document and one pipeline name the attempt numbers
\* of the runs are strictly increasing in the order of creation, whatever
\* happens in between (runs of another pipeline, pre-flight errors).
C12_Original ==
    \A r1, r2 \in 1..Len(runs) :
        (r1 < r2 /\ SameLineage(r1, r2)) => runs[r1].attempt_no < runs[r2].attempt_no

IncreasingUpToRestart ==
    \A r1, r2 \in 1..Len(runs) :
        (r1 < r2 /\ SameLineage(r1, r2) /\ ~RestartBetween(r1, r2))
            => runs[r1].attempt_no < runs[r2].attempt_no

\* a pre-flight that lets a document with runs go on without a parent either
\* raised or found the pipeline column naming another pipeline
RestartCause ==
    (pc = "preflight" /\ pc' = "create" /\ hasRepo /\ parent_run_id' = 0
       /\ RunsOfDoc(runs, i) # {})
    => /\ attempt_no' = 1
       /\ decision' = <<>> \/ docs[i] # PIPELINE

\* C12 as amended: the attempt numbers increase strictly in the order of
\* creation up to the next run created without a parent; the driver creates
\* such a run, as attempt 1, for a document that has runs only when the
\* pre-flight raised or the pipeline column of the document named another
\* pipeline.
C12_AttemptsIncrease ==
    /\ []IncreasingUpToRestart
    /\ [][RestartCause]_vars

\* the numbering restarted after the other pipeline handled the document
C12_Witness ==
    /\ Len(runs) = 2 /\ run_id = 2
    /\ SameLineage(1, 2)
    /\ runs[1].attempt_no = 1 /\ runs[2].attempt_no = 1
    /\ runs[2].parent_run_id = 0
    /\ PreflightDecided /\ last_run = <<>>

\* ------------------------------------------------------------------------
\* Properties of the recovery loop
\* ------------------------------------------------------------------------
\* how often the engine call 'name' was made for the current image
Calls(name) == Cardinality({k \in 1..Len(log) : log[k][1] = name})

InLoop == pc \in {"try", "except"}

\* C14: for each image the recovery loop is left after finitely many steps,
\* with at most one call of engine.recover() and at most two of engine.ocr,
\* whatever the engine raises.
C14_RecoveryLoopBounded ==
    /\ [](Calls("engine.recover") <= 1 /\ Calls("engine.ocr") <= 2)
    /\ InLoop ~> ~InLoop

\* both calls of engine.ocr and the one recovery were used
C14_Witness ==
    /\ pc = "next"
    /\ Calls("engine.ocr") = 2 /\ Calls("engine.recover") = 1
    /\ log[3] = <<"engine.ocr", "raise">>
    /\ recovery_count = max_recovery_retries

LastStep == steps[Len(steps)]

FailureRecorded(e) ==
    /\ runs[run_id].status = "failed"
    /\ runs[run_id].error_kind = classify_error(e)
    /\ runs[run_id].error_message = Str(e)
    /\ steps # <<>>
    /\ LastStep = [run_id |-> run_id, step_name |-> "engine_finish",
                   status |-> "failed", error_message |-> Str(e)]

\* a step of the except branch that calls engine.recover()
RecoverCalled == pc = "except" /\ Len(log') > Len(log)

\* the driver is in the except branch with an exception that is not
\* transient or with the recovery budget used, and is not interrupted
FinalFailureStep ==
    /\ pc = "except" /\ pc' # "finally"
    /\ classify_error(exc[1]) # TRANSIENT \/ recovery_count >= max_recovery_retries

\* C15: engine.recover() is called only after an exception classified
\* transient (and with budget left); otherwise the except branch marks the
\* run failed with the kind and message of that exception, records an
\* engine_finish/failed step and leaves the loop without another engine call.
C15_FinalFailure ==
    /\ [][RecoverCalled =>
            /\ classify_error(exc[1]) = TRANSIENT
            /\ recovery_count < max_recovery_retries
            /\ log'[Len(log')][1] = "engine.recover"]_vars
    /\ [][FinalFailureStep =>
            /\ pc' = "next"
            /\ log' = log
            /\ HasRun => FailureRecorded(exc[1])']_vars

\* an unknown failure of the first engine.ocr call: failed without recovery
C15_Witness ==
    /\ pc = "next" /\ HasRun
    /\ exc = <<ExcOther>>
    /\ log = <<<<"engine.ocr", "raise">>>>
    /\ recovery_count = 0
    /\ FailureRecorded(ExcOther)

\* the engine.ocr calls made after the k-th entry of the log
OcrCallsAfter(k) ==
    Cardinality({j \in (k + 1)..Len(log) : log[j][1] = "engine.ocr"})

RecoverRaised(k) == log[k] = <<"engine.recover", "raise">>

\* C16: when engine.recover() raises (and no interrupt arrives), a
\* recover_refresh/failed step with the message of that exception is
\* recorded, the loop goes on, and engine.ocr is called once more for the
\* run, and only once.
C16_FailedRecoveryRetries ==
    /\ [][(pc = "except" /\ Len(log') > Len(log)
              /\ log'[Len(log')] = <<"engine.recover", "raise">>
              /\ exit' # "interrupt")
            => /\ pc' = "try"
               /\ exit' = exit
               /\ HasRun =>
                    /\ LastStep'.run_id = run_id
                    /\ LastStep'.step_name = "recover_refresh"
                    /\ LastStep'.status = "failed"
                    /\ LastStep'.error_message # <<>>]_vars
    /\ [](\A k \in 1..Len(log) : RecoverRaised(k) =>
            /\ OcrCallsAfter(k) <= 1
            /\ pc = "next" => OcrCallsAfter(k) = 1)

\* the recovery failed and the second engine.ocr call succeeded
C16_Witness ==
    /\ pc = "next" /\ HasRun
    /\ log = <<<<"engine.ocr", "raise">>, <<"engine.recover", "raise">>,
               <<"engine.ocr", "ok">>>>
    /\ runs[run_id].status = "done"
    /\ \E k \in 1..Len(steps) :
          steps[k].step_name = "recover_refresh" /\ steps[k].status = "failed"

\* ------------------------------------------------------------------------
\* Properties of the driver when every call may raise (checked under Spec)
\* ------------------------------------------------------------------------
\* the rows the step keeps
KeptRows == 1..(IF Len(runs') < Len(runs) THEN Len(runs') ELSE Len(runs))

\* C17 as stated: the status of a run marked done or failed is never written
\* again by the driver, also when a call made after the run was marked done
\* raises.
C17_Original ==
    [][\A r \in KeptRows :
          Terminal(r) => runs'[r].status = runs[r].status]_vars

\* C18 as stated: no exception raised while an image is handled ends the
\* batch; the for loop is left only after the last image or by an interrupt.
C18_Original ==
    (pc = "finally" /\ i >= 1) => exit \in {"normal", "interrupt"}

\* a pre-flight step in which sha256_file, get_or_create_document or
\* get_latest_run raised (and no interrupt arrived)
PreflightRaisedStep ==
    /\ pc = "preflight" /\ hasRepo
    /\ decision' = <<>>
    /\ exit' # "interrupt"

\* C19: a pre-flight that raises sends the image on as attempt 1 without
\* parent when retry_failed is unset, and abandons it without a run and
\* without an engine call when retry_failed is set; in neither case is the
\* for loop left.
C19_PreflightErrors ==
    /\ [][PreflightRaisedStep =>
            /\ exit' = exit
            /\ runs' = runs /\ steps' = steps /\ log' = log /\ run_id' = 0
            /\ attempt_no' = 1 /\ parent_run_id' = 0
            /\ pc' = IF cfg.retry_failed THEN "next" ELSE "create"]_vars
    /\ []((HasRun /\ PreflightRaised) =>
            /\ ~cfg.retry_failed
            /\ runs[run_id].attempt_no = 1
            /\ runs[run_id].parent_run_id = 0)

\* the history lookup raised and the image was processed all the same
C19_Witness ==
    /\ pc = "next" /\ HasRun /\ PreflightRaised
    /\ doc_id = i
    /\ ~cfg.retry_failed
    /\ runs[run_id].status = "done"
    /\ runs[run_id].attempt_no = 1 /\ runs[run_id].parent_run_id = 0
    /\ log = <<<<"engine.ocr", "ok">>>>

\* row r is in the tables as of the last commit, as it stands
Durable(r) ==
    /\ r \in 1..Len(committed.runs)
    /\ committed.runs[r] = runs[r]

\* C20 as stated: each completed unit is committed, so that when the driver
\* closes the connection every run that is done or failed is durably
\* recorded.
C20_Original ==
    pc = "finally" => \A r \in 1..Len(runs) : Terminal(r) => Durable(r)

\* ------------------------------------------------------------------------
\* The finally block of main() (checked under SpecRelease)
\* ------------------------------------------------------------------------
\* the finally block runs in this step
FinallyStep == pc = "finally" /\ pc' = "idle"

Classified == classified # <<>>
Kind == classified[1]

\* the failure is a missing file, or its message speaks of a login or an
\* authentication, a missing cookie or an invalid format
PermanentIndicator ==
    \/ failure.is_fnf
    \/ "login" \in failure.msg_has
    \/ "auth" \in failure.msg_has
    \/ {"cookie", "missing"} \subseteq failure.msg_has
    \/ {"invalid", "format"} \subseteq failure.msg_has

\* the type is a timeout or a closed target, or the message speaks of a
\* detached element, a destroyed execution context, a navigation timeout or
\* a network error
TransientIndicator ==
    \/ "TimeoutError" \in failure.type_has
    \/ "TargetClosedError" \in failure.type_has
    \/ "detached" \in failure.msg_has
    \/ "execution context was destroyed" \in failure.msg_has
    \/ {"navigating to", "timeout"} \subseteq failure.msg_has
    \/ {"network", "error"} \subseteq failure.msg_has

\* C22 as stated: a failure with a permanent indicator is PERMANENT whatever
\* else its type name or message contains.
C22_Original ==
    (Classified /\ PermanentIndicator) => Kind = PERMANENT

\* C22, amended: a failure with a permanent indicator and without any
\* transient indicator is PERMANENT, whatever else its message contains.
C22_PermanentUnlessTransient ==
    (Classified /\ PermanentIndicator /\ ~TransientIndicator) => Kind = PERMANENT

\* a missing file whose message also holds half of two transient phrases
C22_Witness ==
    /\ Classified /\ Kind = PERMANENT
    /\ failure.is_fnf
    /\ failure.type_has = {}
    /\ failure.msg_has = {"timeout", "error"}

\* C23: a failure with a transient indicator is TRANSIENT whatever else it
\* is; the result is UNKNOWN exactly when there is neither a transient nor a
\* permanent indicator; every failure gets one of the three kinds.
C23_TransientFirst ==
    Classified =>
        /\ Kind \in ErrorKind
        /\ TransientIndicator => Kind = TRANSIENT
        /\ Kind = UNKNOWN <=> (~TransientIndicator /\ ~PermanentIndicator)

\* a missing file asking for a login, with a detached element in the message
C23_Witness ==
    /\ Classified /\ Kind = TRANSIENT
    /\ failure.is_fnf
    /\ failure.type_has = {}
    /\ failure.msg_has = {"detached", "login"}

\* ------------------------------------------------------------------------
\* What the recovery loop records and calls (checked under SpecAttempt)
\* ------------------------------------------------------------------------
\* the steps of that name recorded for the image being handled
StepsNamed(name) == {k \in 1..Len(steps) : steps[k].step_name = name}

\* C24 as stated: the engine_start step is recorded once for a run; the loop
\* does not record it again when it calls engine.ocr after a recovery.
C24_Original ==
    Cardinality(StepsNamed("engine_start")) <= 1

\* the engine.ocr calls that returned, for the image being handled
OcrReturned == {k \in 1..Len(log) : log[k] = <<"engine.ocr", "ok">>}

\* C26 as stated: after an engine.ocr call of a run has returned, the engine
\* is not called again for that run.
C26_Original ==
    \A k \in OcrReturned : k = Len(log)

\* ------------------------------------------------------------------------
\* The attempt budget across invocations (checked under SpecHistory)
\* ------------------------------------------------------------------------
\* the runs this invocation created
CreatedNow == IF pc = "idle" THEN {} ELSE (base + 1)..Len(runs)

\* C25 as stated: without force no run is created with an attempt number
\* above max_attempts, whatever the earlier invocations left behind.
C25_Original ==
    ~cfg.force => \A r \in CreatedNow : runs[r].attempt_no <= cfg.max_attempts

\* ------------------------------------------------------------------------
\* The done check of the repository (checked under SpecRepoStatus)
\* ------------------------------------------------------------------------
\* C27 as stated: has_successful_run(doc_id, pipeline) is True only if a run
\* of the document that was created under that pipeline is done.
C27_Original ==
    \A d \in Files, p \in Pipelines :
        has_successful_run(docs, runs, d, p) =>
            \E r \in RunsOfDoc(runs, d) :
                runs[r].made_under = p /\ runs[r].status = "done"

\* ------------------------------------------------------------------------
\* Properties of Pipeline._process_one (checked under SpecPipeline)
\* ------------------------------------------------------------------------
\* the calls of that name made for the last file
CallsNamed(name) == {j \in 1..Len(dbcalls) : dbcalls[j][1] = name}

\* one of the upserts or the output writing of the try block raised
StepRaised ==
    \E j \in 1..Len(dbcalls) :
        /\ j <= 4
        /\ dbcalls[j] = <<TryCalls[j], "raise">>

\* file f is in the committed tables as a finished unit
SavedDone(f) == saved.documents[f] = "done" /\ f \in saved.entries

\* C28: _process_one commits once, after the two document upserts, the output
\* writing and the entry upsert all returned; when one of them raises an
\* Exception it rolls back once, does not commit, and run() stops at that
\* file, the committed tables being those the earlier files left.
C28_CommitOrRollback ==
    /\ [](processed >= 1 =>
            /\ Cardinality(CallsNamed("commit")) <= 1
            /\ CallsNamed("commit") # {} =>
                  \A j \in 1..4 : dbcalls[j] = <<TryCalls[j], "ok">>
            /\ StepRaised =>
                  /\ Cardinality(CallsNamed("rollback")) = 1
                  /\ CallsNamed("commit") = {}
                  /\ outcome = "raised"
            /\ \A f \in 1..(processed - 1) : SavedDone(f)
            /\ outcome # "raised" => SavedDone(processed))
    /\ [][outcome' = "raised" => saved' = saved]_vars
    /\ [][outcome = "raised" => processed' = processed]_vars

\* the second file fails at upsert_entry after the first was committed
C28_Witness ==
    /\ processed = 2 /\ outcome = "raised"
    /\ dbcalls = <<<<"upsert_document", "ok">>, <<"write_outputs", "ok">>,
                   <<"upsert_entry", "raise">>, <<"rollback", "ok">>,
                   <<"write_outputs", "ok">>>>
    /\ SavedDone(1)
    /\ saved.documents[2] = "absent"
    /\ tables = saved

\* ------------------------------------------------------------------------
\* Properties of retry_call (checked under SpecRetry)
\* ------------------------------------------------------------------------
\* call k of fn raised an exception of a class in retry_on
Retryable(k) == fn_calls[k] \in retry_on

\* C29: retry_call ends; it calls fn at most retries + 1 times; it returns
\* the result of the first call of fn that returns; an exception that is not
\* in retry_on is raised at once; after retries + 1 failures in retry_on the
\* last of them is raised.
C29_RetryCallBounded ==
    /\ <>(ending # <<>>)
    /\ [](/\ Len(fn_calls) <= retries + 1
          /\ \A k \in 1..Len(fn_calls) :
                /\ fn_calls[k] = "ok" =>
                      /\ ending = <<"return", k>>
                      /\ \A j \in 1..(k - 1) : Retryable(j)
                /\ (fn_calls[k] # "ok" /\ ~Retryable(k)) => ending = <<"raise", k>>
                /\ (Retryable(k) /\ k = retries + 1) => ending = <<"raise", k>>
          /\ ending # <<>> => ending[2] \in {0, Len(fn_calls)})

\* two failures in retry_on use up retries = 1 and the second is raised
C29_Witness ==
    /\ retries = 1 /\ backoff_ms = 10
    /\ retry_on = {"MyError"}
    /\ fn_calls = <<"MyError", "MyError">>
    /\ ending = <<"raise", 2>>

\* ------------------------------------------------------------------------
\* Round-robin scheduling of the WorkerPool (checked under SpecPool)
\* ------------------------------------------------------------------------
\* C30 as stated: submit_job raises "Worker pool not started" when there are
\* no workers, and otherwise runs the job on the worker whose index is the
\* number of jobs submitted since the last start() modulo size, never
\* indexing outside the worker list.
C30_Original ==
    last_job # <<>> =>
        IF last_job[1].had_workers
        THEN last_job[1].raised = "" /\ last_job[1].worker = last_job[1].expected
        ELSE last_job[1].raised = "Worker pool not started"

====
